---- MODULE Spec2Model ----
(***************************************************************************)
(* A model of serde2's JSON serializer (src/serde2/src/json/ser.rs).       *)
(*                                                                         *)
(* Bytes are the integers 0..255 and a text is a sequence of bytes.  The   *)
(* writer (the sink) is a record that keeps every byte it accepted and the *)
(* number of writes attempted on it; it fails at the write whose index is  *)
(* failAt.  The serializer is a machine with an explicit call stack: one   *)
(* action per visit_* handler, per step of the element driver and per      *)
(* entry point.  Indices of byte slices are 0-based as in the source.      *)
(***************************************************************************)
EXTENDS Integers, Sequences, FiniteSets

VARIABLES
    stack,      \* call stack, the innermost call last
    wr,         \* the Writer owned by the Serializer
    failAt,     \* index of the write the sink rejects, or NoFail
    ret,        \* the value a finished call hands to its caller
    top,        \* the value the top-level caller serializes
    nodes,      \* elements yielded so far by all element drivers
    lastClosed  \* what the last completed visit_seq / visit_map wrote

vars == <<stack, wr, failAt, ret, top, nodes, lastClosed>>

(***************************************************************************)
(* Bounds of the model.                                                    *)
(***************************************************************************)
MaxNodes == 3       \* elements yielded in one serialization
MaxDepth == 2       \* nesting depth of sequences and mappings
MaxFailAt == 7      \* the sink may reject any of its first MaxFailAt+1 writes
MaxBytes == 3       \* length of the byte strings given to escape_bytes
MaxStrLen == 2      \* length (in characters) of the strings given to visit_str

NoFail == 0 - 1

(***************************************************************************)
(* Texts of the source's literals.                                         *)
(***************************************************************************)
StrNull == <<110, 117, 108, 108>>
StrTrue == <<116, 114, 117, 101>>
StrFalse == <<102, 97, 108, 115, 101>>
StrLBracket == <<91>>
StrRBracket == <<93>>
StrLBraces == <<123, 123>>
StrRBraces == <<125, 125>>
StrComma == <<44>>
StrColon == <<58>>
StrQuote == <<34>>

(***************************************************************************)
(* Result<(), IoError>.  err identifies the IoError: the index of the      *)
(* write the sink rejected.                                                *)
(***************************************************************************)
OkR == [ok |-> TRUE, err |-> NoFail]
ErrR(e) == [ok |-> FALSE, err |-> e]

(***************************************************************************)
(* The Writer.  buf: the bytes accepted; n: writes attempted; err: index   *)
(* of the rejected write (NoFail while none was); late: a write was        *)
(* attempted after the rejected one.                                       *)
(***************************************************************************)
NewWriter == [buf |-> <<>>, n |-> 0, err |-> NoFail, late |-> FALSE]

write(w, bytes) ==
    IF w.n = failAt
    THEN [wr |-> [w EXCEPT !.n = @ + 1, !.err = w.n], res |-> ErrR(w.n)]
    ELSE [wr |-> [w EXCEPT !.n = @ + 1, !.buf = @ \o bytes,
                           !.late = @ \/ (w.err # NoFail)],
          res |-> OkR]

write_str(w, s) == write(w, s)

(***************************************************************************)
(* escape_bytes.                                                           *)
(***************************************************************************)
\* the match without its arm for the backslash
IsEscapedNoBackslash(byte) == byte \in {34, 8, 12, 10, 13, 9}

\* the bytes the match in escape_bytes has an arm for
IsEscaped(byte) == byte \in {34, 92, 8, 12, 10, 13, 9}

escaped(byte) ==
    CASE byte = 34 -> <<92, 34>>
      [] byte = 92 -> <<92, 92>>
      [] byte = 8 -> <<92, 98>>
      [] byte = 12 -> <<92, 102>>
      [] byte = 10 -> <<92, 110>>
      [] byte = 13 -> <<92, 114>>
      [] byte = 9 -> <<92, 116>>

\* bytes.slice(from, to): the bytes at the 0-based indices from..to-1
slice(bytes, from, to) == SubSeq(bytes, from + 1, to)

slice_from(bytes, from) == SubSeq(bytes, from + 1, Len(bytes))

\* the run restarts at the escaped byte instead of after it
NextStartSame(i) == i

\* the value `start` takes after an escape was written for the byte at i
NextStart(i) == i + 1

\* the flush of the unescaped run before the escapable byte at i
FlushRun(w, bytes, start, i) ==
    IF start < i THEN write(w, slice(bytes, start, i))
    ELSE [wr |-> w, res |-> OkR]

\* the loop `for (i, byte) in bytes.iter().enumerate()`, from index i on
RECURSIVE EscapeLoop(_, _, _, _)
EscapeLoop(w, bytes, i, start) ==
    IF i >= Len(bytes) THEN [wr |-> w, res |-> OkR, start |-> start]
    ELSE IF ~IsEscaped(bytes[i + 1]) THEN EscapeLoop(w, bytes, i + 1, start)
    ELSE LET w1 == FlushRun(w, bytes, start, i)
         IN  IF ~w1.res.ok THEN [wr |-> w1.wr, res |-> w1.res, start |-> start]
             ELSE LET w2 == write_str(w1.wr, escaped(bytes[i + 1]))
                  IN  IF ~w2.res.ok
                      THEN [wr |-> w2.wr, res |-> w2.res, start |-> start]
                      ELSE EscapeLoop(w2.wr, bytes, i + 1, NextStart(i))

escape_bytes(w, bytes) ==
    LET w0 == write_str(w, StrQuote)
    IN  IF ~w0.res.ok THEN w0
        ELSE LET l == EscapeLoop(w0.wr, bytes, 0, 0)
             IN  IF ~l.res.ok THEN [wr |-> l.wr, res |-> l.res]
                 ELSE LET w3 == IF l.start # Len(bytes)
                                THEN write(l.wr, slice_from(bytes, l.start))
                                ELSE [wr |-> l.wr, res |-> OkR]
                      IN  IF ~w3.res.ok THEN w3
                          ELSE write_str(w3.wr, StrQuote)

(***************************************************************************)
(* char::encode_utf8 and str::as_bytes.  A char is its code point, a str   *)
(* is a sequence of chars.                                                 *)
(***************************************************************************)
encode_utf8(c) ==
    IF c < 128 THEN <<c>>
    ELSE IF c < 2048 THEN <<192 + (c \div 64), 128 + (c % 64)>>
    ELSE IF c < 65536
         THEN <<224 + (c \div 4096), 128 + ((c \div 64) % 64), 128 + (c % 64)>>
    ELSE <<240 + (c \div 262144), 128 + ((c \div 4096) % 64),
           128 + ((c \div 64) % 64), 128 + (c % 64)>>

RECURSIVE as_bytes(_)
as_bytes(s) == IF s = <<>> THEN <<>> ELSE encode_utf8(Head(s)) \o as_bytes(Tail(s))

escape_str(w, value) == escape_bytes(w, as_bytes(value))

\* the 4-byte buffer after value.encode_utf8(buf)
CharBuf(value) ==
    LET enc == encode_utf8(value)
    IN  [i \in 1..4 |-> IF i <= Len(enc) THEN enc[i] ELSE 0]

escape_char(w, value) == escape_bytes(w, CharBuf(value))

(***************************************************************************)
(* Number formatting.  `write!(self.writer, "{}", value)` writes the plain *)
(* decimal text of an integer.                                             *)
(***************************************************************************)
RECURSIVE Digits(_)
Digits(n) == IF n < 10 THEN <<48 + n>> ELSE Digits(n \div 10) \o <<48 + (n % 10)>>

fmt_int(value) == IF value < 0 THEN <<45>> \o Digits(0 - value) ELSE Digits(value)

(***************************************************************************)
(* An f64 is its three bit fields.  classify() is the IEEE-754 reading of  *)
(* the exponent and mantissa fields.  f64::to_str_digits is a function of  *)
(* the standard library whose text is not computed here: its result is an  *)
(* opaque text, written with numbers above 255 so that it is no byte       *)
(* string, that names the value and the digit count it was called with.    *)
(***************************************************************************)
classify(value) ==
    IF value.exp = 2047
    THEN (IF value.man = 0 THEN "FPInfinite" ELSE "FPNaN")
    ELSE IF value.exp = 0
         THEN (IF value.man = 0 THEN "FPZero" ELSE "FPSubnormal")
         ELSE "FPNormal"

to_str_digits(value, dig) ==
    <<256 + dig, 512 + value.sign, 1024 + value.exp, 4096 + value.man>>

\* the match with FPNaN alone in its first arm
IsNullClassNaNOnly(class) == class = "FPNaN"

\* whether a class selects the first arm of the match in fmt_f64_or_null
IsNullClass(class) == class \in {"FPNaN", "FPInfinite"}

fmt_f64_or_null(w, value) ==
    IF IsNullClass(classify(value))
    THEN write_str(w, StrNull)
    ELSE write_str(w, to_str_digits(value, 6))

(***************************************************************************)
(* Values: what a Serialize implementation hands to the visitor.  kind     *)
(* selects the visit method; n is the integer, the bool (0/1) or the       *)
(* char's code point; s the chars of a str or the bytes of a byte slice;   *)
(* f the f64.  A sequence or mapping value carries no elements: its        *)
(* element driver yields them one at a time.                               *)
(***************************************************************************)
F0 == [sign |-> 0, exp |-> 0, man |-> 0]

Val(kind, n, s, f) == [kind |-> kind, n |-> n, s |-> s, f |-> f]

NullV == Val("null", 0, <<>>, F0)
BoolV(b) == Val("bool", IF b THEN 1 ELSE 0, <<>>, F0)
IntV(n) == Val("int", n, <<>>, F0)
F64V(f) == Val("f64", 0, <<>>, f)
CharV(c) == Val("char", c, <<>>, F0)
StrV(s) == Val("str", 0, s, F0)
BytesV(b) == Val("bytes", 0, b, F0)
SeqV == Val("seq", 0, <<>>, F0)
MapV == Val("map", 0, <<>>, F0)

(***************************************************************************)
(* The visit methods of `impl ser::Visitor for Serializer<W>` on scalars.  *)
(***************************************************************************)
visit_null(w) == write_str(w, StrNull)

visit_bool(w, value) == IF value THEN write_str(w, StrTrue) ELSE write_str(w, StrFalse)

\* the ten integer methods are the same `write!`, taken as one write of the sink
visit_int(w, value) == write(w, fmt_int(value))

visit_f64(w, value) == fmt_f64_or_null(w, value)

visit_char(w, v) == escape_char(w, v)

visit_str(w, value) == escape_str(w, value)

(***************************************************************************)
(* Call frames.  op: the function running; pc: where it is.  A visit_seq / *)
(* visit_map frame also carries its element driver (count: elements        *)
(* yielded, calls: times invoked, exhausted: it returned None) and a       *)
(* record of what happened in the call: openPos, the length of the sink    *)
(* when it was called; vals, the elements the driver yielded; parts, the   *)
(* bytes each finished element wrote (k: its key, v: its value); eltPos    *)
(* and keySpan, where the element under way started.                       *)
(***************************************************************************)
Frame(op, pc, val) ==
    [op |-> op, pc |-> pc, val |-> val, key |-> NullV, first |-> FALSE,
     depth |-> 0, count |-> 0, calls |-> 0, exhausted |-> FALSE,
     openPos |-> 0, eltPos |-> 0, keySpan |-> <<>>, parts |-> <<>>, vals |-> <<>>]

NoRet == [tag |-> "none", err |-> NoFail, bytes |-> <<>>, text |-> ""]
Ret(tag, e) == [tag |-> tag, err |-> e, bytes |-> <<>>, text |-> ""]
RetOf(res) == IF res.ok THEN Ret("Ok", NoFail) ELSE Ret("Err", res.err)

NoClosed ==
    [kind |-> "none", depth |-> 0, seg |-> <<>>, parts |-> <<>>, vals |-> <<>>,
     calls |-> 0, count |-> 0, exhausted |-> FALSE]

Top == stack[Len(stack)]
Pop == SubSeq(stack, 1, Len(stack) - 1)
Replace(f) == [stack EXCEPT ![Len(stack)] = f]
IsContainer(f) == f.op \in {"visit_seq", "visit_map"}

(***************************************************************************)
(* String::from_utf8: whether the bytes are well-formed UTF-8.             *)
(***************************************************************************)
IsCont(b) == b >= 128 /\ b <= 191

RECURSIVE Utf8Valid(_)
Utf8Valid(b) ==
    IF b = <<>> THEN TRUE
    ELSE LET h == b[1]
             n == Len(b)
         IN  IF h < 128 THEN Utf8Valid(Tail(b))
             ELSE IF h >= 194 /\ h <= 223
                  THEN n >= 2 /\ IsCont(b[2]) /\ Utf8Valid(SubSeq(b, 3, n))
             ELSE IF h >= 224 /\ h <= 239
                  THEN /\ n >= 3 /\ IsCont(b[2]) /\ IsCont(b[3])
                       /\ (h = 224 => b[2] >= 160)
                       /\ (h = 237 => b[2] <= 159)
                       /\ Utf8Valid(SubSeq(b, 4, n))
             ELSE IF h >= 240 /\ h <= 244
                  THEN /\ n >= 4 /\ IsCont(b[2]) /\ IsCont(b[3]) /\ IsCont(b[4])
                       /\ (h = 240 => b[2] >= 144)
                       /\ (h = 244 => b[2] <= 143)
                       /\ Utf8Valid(SubSeq(b, 5, n))
             ELSE FALSE

(***************************************************************************)
(* Inputs.                                                                 *)
(***************************************************************************)
Leaves == {IntV(1), IntV(2), IntV(3), StrV(<<97>>)}
Keys == {StrV(<<97>>), StrV(<<98>>)}
TopValues == Leaves \cup {SeqV, MapV}

\* what a driver of a container at nesting depth d may yield
Elems(d) == Leaves \cup (IF d < MaxDepth THEN {SeqV, MapV} ELSE {})

\* Serializer is generic in its Writer, and every Writer call returns a
\* Result: any one write may be the rejected one.  The writer to_vec makes
\* is treated as any Writer.
FailPoints == {NoFail} \cup (0..MaxFailAt)

(***************************************************************************)
(* Entry points.                                                           *)
(***************************************************************************)
Init ==
    /\ \E entry \in {"to_vec", "to_string"} : stack = <<Frame(entry, "start", NullV)>>
    /\ wr = NewWriter
    /\ failAt \in FailPoints
    /\ ret = NoRet
    /\ top \in TopValues
    /\ nodes = 0
    /\ lastClosed = NoClosed

\* to_string: `let vec = try!(to_vec(value));`, the call
ToString ==
    /\ stack # <<>> /\ Top.op = "to_string" /\ Top.pc = "start"
    /\ stack' = Append(Replace([Top EXCEPT !.pc = "to_vec"]),
                       Frame("to_vec", "start", NullV))
    /\ UNCHANGED <<wr, failAt, ret, top, nodes, lastClosed>>

\* to_string: the try! and `Ok(String::from_utf8(vec))`
ToStringReturn ==
    /\ stack # <<>> /\ Top.op = "to_string" /\ Top.pc = "to_vec" /\ ret.tag # "none"
    /\ ret' = IF ret.tag = "Err" THEN ret
              ELSE [ret EXCEPT !.text = IF Utf8Valid(ret.bytes) THEN "Ok" ELSE "Err"]
    /\ stack' = Pop
    /\ UNCHANGED <<wr, failAt, top, nodes, lastClosed>>

\* to_vec: the writer, the Serializer and the call `value.serialize(&mut state)`
ToVec ==
    /\ stack # <<>> /\ Top.op = "to_vec" /\ Top.pc = "start" /\ ret.tag = "none"
    /\ wr' = NewWriter
    /\ stack' = Append(Replace([Top EXCEPT !.pc = "serialize"]),
                       Frame("serialize", "start", top))
    /\ UNCHANGED <<failAt, ret, top, nodes, lastClosed>>

\* to_vec: the try! and `Ok(state.unwrap().unwrap())`
ToVecReturn ==
    /\ stack # <<>> /\ Top.op = "to_vec" /\ Top.pc = "serialize" /\ ret.tag # "none"
    /\ ret' = IF ret.tag = "Err" THEN ret ELSE [ret EXCEPT !.bytes = wr.buf]
    /\ stack' = Pop
    /\ UNCHANGED <<wr, failAt, top, nodes, lastClosed>>

(***************************************************************************)
(* value.serialize(self) of a scalar: one visit call.                      *)
(***************************************************************************)
Serializing(kind) ==
    stack # <<>> /\ Top.op = "serialize" /\ Top.val.kind = kind

Return(r) ==
    /\ wr' = r.wr
    /\ ret' = RetOf(r.res)
    /\ stack' = Pop
    /\ UNCHANGED <<failAt, top, nodes, lastClosed>>

VisitNull == Serializing("null") /\ Return(visit_null(wr))

VisitBool == Serializing("bool") /\ Return(visit_bool(wr, Top.val.n = 1))

VisitInt == Serializing("int") /\ Return(visit_int(wr, Top.val.n))

VisitF64 == Serializing("f64") /\ Return(visit_f64(wr, Top.val.f))

VisitChar == Serializing("char") /\ Return(visit_char(wr, Top.val.n))

VisitStr == Serializing("str") /\ Return(visit_str(wr, Top.val.s))

\* a direct call of the public escape_bytes
EscapeBytes == Serializing("bytes") /\ Return(escape_bytes(wr, Top.val.s))

(***************************************************************************)
(* Sequences.                                                              *)
(***************************************************************************)
\* visit_seq: `try!(self.writer.write_str("["))`, then the loop is entered
VisitSeq ==
    /\ Serializing("seq")
    /\ LET r == write_str(wr, StrLBracket)
       IN  /\ wr' = r.wr
           /\ IF r.res.ok
              THEN /\ stack' = Replace([Frame("visit_seq", "loop", Top.val) EXCEPT
                                           !.depth = Top.depth + 1,
                                           !.openPos = Len(wr.buf)])
                   /\ ret' = NoRet
              ELSE /\ stack' = Pop
                   /\ ret' = RetOf(r.res)
    /\ UNCHANGED <<failAt, top, nodes, lastClosed>>

\* what visit_seq / visit_map leaves behind when its closing write succeeded
Closed(f, w) ==
    [kind |-> f.val.kind, depth |-> f.depth,
     seg |-> SubSeq(w.buf, f.openPos + 1, Len(w.buf)),
     parts |-> f.parts, vals |-> f.vals,
     calls |-> f.calls, count |-> f.count, exhausted |-> f.exhausted]

\* the loop of visit_seq / visit_map on what visitor.visit(self) returned:
\* try! on an error, again on Some(()), break and the closing write on None
\* the same loop without the try!: an error of the driver is taken for Some(())
LoopStepNoTry(closing) ==
    IF ret.tag \in {"Err", "Some"}
    THEN /\ stack' = Replace([Top EXCEPT !.pc = "loop"])
         /\ ret' = NoRet
         /\ UNCHANGED <<wr, lastClosed>>
    ELSE LET r == write_str(wr, closing)
         IN  /\ wr' = r.wr
             /\ ret' = RetOf(r.res)
             /\ stack' = Pop
             /\ lastClosed' = IF r.res.ok THEN Closed(Top, r.wr) ELSE lastClosed

\* the same loop without the break: None is taken for Some(())
LoopStepNoBreak(closing) ==
    IF ret.tag = "Err"
    THEN /\ stack' = Pop
         /\ UNCHANGED <<wr, ret, lastClosed>>
    ELSE /\ stack' = Replace([Top EXCEPT !.pc = "loop"])
         /\ ret' = NoRet
         /\ UNCHANGED <<wr, lastClosed>>

LoopStep(closing) ==
    IF ret.tag = "Err"
    THEN /\ stack' = Pop
         /\ UNCHANGED <<wr, ret, lastClosed>>
    ELSE IF ret.tag = "Some"
    THEN /\ stack' = Replace([Top EXCEPT !.pc = "loop"])
         /\ ret' = NoRet
         /\ UNCHANGED <<wr, lastClosed>>
    ELSE LET r == write_str(wr, closing)
         IN  /\ wr' = r.wr
             /\ ret' = RetOf(r.res)
             /\ stack' = Pop
             /\ lastClosed' = IF r.res.ok THEN Closed(Top, r.wr) ELSE lastClosed

VisitSeqLoop ==
    /\ stack # <<>> /\ Top.op = "visit_seq" /\ Top.pc = "match"
    /\ LoopStep(StrRBracket)
    /\ UNCHANGED <<failAt, top, nodes>>

\* a separator before every element, the first included
SeqEltCommaAlways(first) == TRUE

\* visit_seq_elt: whether the separator is written
SeqEltComma(first) == ~first

\* visit_seq_elt: the separator, then `value.serialize(self)` as a tail call
VisitSeqElt ==
    /\ stack # <<>> /\ Top.op = "visit_seq_elt"
    /\ LET r == IF SeqEltComma(Top.first) THEN write_str(wr, StrComma)
                ELSE [wr |-> wr, res |-> OkR]
           n == Len(stack)
       IN  /\ wr' = r.wr
           /\ IF r.res.ok
              THEN /\ stack' = [stack EXCEPT
                                  ![n - 1].eltPos = Len(r.wr.buf),
                                  ![n] = [Frame("serialize", "start", Top.val)
                                             EXCEPT !.depth = Top.depth]]
                   /\ ret' = NoRet
              ELSE /\ stack' = Pop
                   /\ ret' = RetOf(r.res)
    /\ UNCHANGED <<failAt, top, nodes, lastClosed>>

(***************************************************************************)
(* Mappings.                                                               *)
(***************************************************************************)
\* visit_map: `try!(self.writer.write_str("{{"))`, then the loop is entered
VisitMap ==
    /\ Serializing("map")
    /\ LET r == write_str(wr, StrLBraces)
       IN  /\ wr' = r.wr
           /\ IF r.res.ok
              THEN /\ stack' = Replace([Frame("visit_map", "loop", Top.val) EXCEPT
                                           !.depth = Top.depth + 1,
                                           !.openPos = Len(wr.buf)])
                   /\ ret' = NoRet
              ELSE /\ stack' = Pop
                   /\ ret' = RetOf(r.res)
    /\ UNCHANGED <<failAt, top, nodes, lastClosed>>

VisitMapLoop ==
    /\ stack # <<>> /\ Top.op = "visit_map" /\ Top.pc = "match"
    /\ LoopStep(StrRBraces)
    /\ UNCHANGED <<failAt, top, nodes>>

\* visit_map_elt: the separator, then `try!(key.serialize(self))`, the call
VisitMapElt ==
    /\ stack # <<>> /\ Top.op = "visit_map_elt" /\ Top.pc = "start"
    /\ LET r == IF ~Top.first THEN write_str(wr, StrComma)
                ELSE [wr |-> wr, res |-> OkR]
           n == Len(stack)
       IN  /\ wr' = r.wr
           /\ IF r.res.ok
              THEN /\ stack' = Append([stack EXCEPT
                                         ![n - 1].eltPos = Len(r.wr.buf),
                                         ![n].pc = "key"],
                                      [Frame("serialize", "start", Top.key)
                                          EXCEPT !.depth = Top.depth])
                   /\ ret' = NoRet
              ELSE /\ stack' = Pop
                   /\ ret' = RetOf(r.res)
    /\ UNCHANGED <<failAt, top, nodes, lastClosed>>

\* visit_map_elt: the try! on the key, `try!(self.writer.write_str(":"))`,
\* then `value.serialize(self)` as a tail call
VisitMapEltKey ==
    /\ stack # <<>> /\ Top.op = "visit_map_elt" /\ Top.pc = "key" /\ ret.tag # "none"
    /\ IF ret.tag = "Err"
       THEN /\ stack' = Pop
            /\ UNCHANGED <<wr, ret>>
       ELSE LET r == write_str(wr, StrColon)
                n == Len(stack)
            IN  /\ wr' = r.wr
                /\ IF r.res.ok
                   THEN /\ stack' = [stack EXCEPT
                                       ![n - 1].keySpan =
                                           SubSeq(wr.buf, stack[n - 1].eltPos + 1, Len(wr.buf)),
                                       ![n - 1].eltPos = Len(r.wr.buf),
                                       ![n] = [Frame("serialize", "start", Top.val)
                                                  EXCEPT !.depth = Top.depth]]
                        /\ ret' = NoRet
                   ELSE /\ stack' = Pop
                        /\ ret' = RetOf(r.res)
    /\ UNCHANGED <<failAt, top, nodes, lastClosed>>

(***************************************************************************)
(* The element driver (ser::SeqVisitor / ser::MapVisitor): a cursor that   *)
(* on each invocation either yields one element, by calling visit_seq_elt  *)
(* / visit_map_elt with first = "no element was yielded before", or        *)
(* returns None.  Invoked again after None it returns None again.          *)
(***************************************************************************)
VisitorVisit ==
    /\ stack # <<>> /\ IsContainer(Top) /\ Top.pc = "loop"
    /\ \/ /\ stack' = Replace([Top EXCEPT !.calls = @ + 1, !.exhausted = TRUE,
                                          !.pc = "match"])
          /\ ret' = Ret("None", NoFail)
          /\ nodes' = nodes
       \/ /\ ~Top.exhausted /\ nodes < MaxNodes
          /\ \E v \in Elems(Top.depth) :
             \E k \in (IF Top.op = "visit_map" THEN Keys ELSE {NullV}) :
                stack' = Append(
                    Replace([Top EXCEPT !.calls = @ + 1, !.count = @ + 1,
                                        !.pc = "driver",
                                        !.vals = Append(@, [key |-> k, val |-> v])]),
                    [Frame(IF Top.op = "visit_map" THEN "visit_map_elt"
                           ELSE "visit_seq_elt", "start", v)
                        EXCEPT !.key = k, !.first = (Top.count = 0),
                               !.depth = Top.depth])
          /\ ret' = NoRet
          /\ nodes' = nodes + 1
    /\ UNCHANGED <<wr, failAt, top, lastClosed>>

\* the driver's try! on what visit_seq_elt / visit_map_elt returned: Some(()) or the error
VisitorReturn ==
    /\ stack # <<>> /\ IsContainer(Top) /\ Top.pc = "driver" /\ ret.tag # "none"
    /\ IF ret.tag = "Ok"
       THEN /\ stack' = Replace([Top EXCEPT
                                   !.pc = "match",
                                   !.parts = Append(@, [k |-> Top.keySpan,
                                                        v |-> SubSeq(wr.buf, Top.eltPos + 1,
                                                                     Len(wr.buf))]),
                                   !.keySpan = <<>>])
            /\ ret' = Ret("Some", NoFail)
       ELSE /\ stack' = Replace([Top EXCEPT !.pc = "match"])
            /\ ret' = ret
    /\ UNCHANGED <<wr, failAt, top, nodes, lastClosed>>

Next ==
    \/ ToString \/ ToStringReturn \/ ToVec \/ ToVecReturn
    \/ VisitInt \/ VisitStr
    \/ VisitSeq \/ VisitSeqLoop \/ VisitSeqElt
    \/ VisitMap \/ VisitMapLoop \/ VisitMapElt \/ VisitMapEltKey
    \/ VisitorVisit \/ VisitorReturn

Spec == Init /\ [][Next]_vars

(***************************************************************************)
(* The scalar visits and the escaper on their own: one visit call on a     *)
(* fresh Serializer.                                                       *)
(***************************************************************************)
ByteAlphabet == {0, 8, 9, 10, 12, 13, 31, 34, 92, 110, 233}
SeqsUpTo(S, n) == UNION {[1..k -> S] : k \in 0..n}

Chars == {0, 10, 34, 92, 97, 127, 128, 233, 2047, 2048, 8364, 65535, 65536,
          128512, 1114111}
StrChars == {10, 34, 92, 97, 233, 8364}
Ints == {0, 7, 10, 255, 1000, 65535, 0 - 1, 0 - 128, 0 - 32768, 0 - 1000000}
F64s == [sign : {0, 1}, exp : {0, 1, 1023, 2046, 2047}, man : {0, 1, 4095}]

ScalarValues ==
    {NullV, BoolV(TRUE), BoolV(FALSE)}
    \cup {IntV(n) : n \in Ints}
    \cup {F64V(f) : f \in F64s}
    \cup {CharV(c) : c \in Chars}
    \cup {StrV(s) : s \in SeqsUpTo(StrChars, MaxStrLen)}
    \cup {BytesV(b) : b \in SeqsUpTo(ByteAlphabet, MaxBytes)}

InitScalar ==
    /\ top \in ScalarValues
    /\ stack = <<Frame("serialize", "start", top)>>
    /\ wr = NewWriter
    /\ failAt \in FailPoints
    /\ ret = NoRet
    /\ nodes = 0
    /\ lastClosed = NoClosed

NextScalar ==
    \/ VisitNull \/ VisitBool \/ VisitInt \/ VisitF64 \/ VisitChar \/ VisitStr
    \/ EscapeBytes

SpecScalar == InitScalar /\ [][NextScalar]_vars

(***************************************************************************)
(* Properties of the escaper and of the scalar visits (SpecScalar).        *)
(***************************************************************************)
\* the visit call returned to the caller with success
ScalarDone(kinds) == stack = <<>> /\ ret.tag = "Ok" /\ top.kind \in kinds

\* the escape table as the specification states it
EscapeOf(byte) ==
    CASE byte = 34 -> <<92, 34>>
      [] byte = 92 -> <<92, 92>>
      [] byte = 8 -> <<92, 98>>
      [] byte = 12 -> <<92, 102>>
      [] byte = 10 -> <<92, 110>>
      [] byte = 13 -> <<92, 114>>
      [] byte = 9 -> <<92, 116>>
      [] OTHER -> <<byte>>

RECURSIVE EscapedBody(_)
EscapedBody(b) == IF b = <<>> THEN <<>> ELSE EscapeOf(Head(b)) \o EscapedBody(Tail(b))

Literal(b) == <<34>> \o EscapedBody(b) \o <<34>>

\* the bytes handed to the escaper by the call under way
InputBytes == IF top.kind = "str" THEN as_bytes(top.s) ELSE top.s

\* C5: escape_bytes writes '"', then for every input byte, once and in input
\* order, its escape (for the seven bytes of the table) or the byte itself,
\* then '"', wherever the escapable bytes stand.
EscapeBytesExact ==
    ScalarDone({"bytes", "str"}) => wr.buf = Literal(InputBytes)

\* C5 witness: escapable bytes first and last, a plain byte between them
EscapeBytesExactWitness ==
    /\ ScalarDone({"bytes"})
    /\ top.s = <<34, 110, 92>>
    /\ wr.buf = <<34, 92, 34, 110, 92, 92, 34>>

\* the decoder of a JSON string literal: the quotes stripped, each two-byte
\* escape replaced by its byte, every other byte copied
UnescapeOf(c) ==
    CASE c = 98 -> 8
      [] c = 102 -> 12
      [] c = 110 -> 10
      [] c = 114 -> 13
      [] c = 116 -> 9
      [] OTHER -> c

RECURSIVE UnescapeBody(_)
UnescapeBody(s) ==
    IF s = <<>> THEN <<>>
    ELSE IF s[1] = 92 /\ Len(s) >= 2
         THEN <<UnescapeOf(s[2])>> \o UnescapeBody(SubSeq(s, 3, Len(s)))
         ELSE <<s[1]>> \o UnescapeBody(Tail(s))

unescape(t) == UnescapeBody(SubSeq(t, 2, Len(t) - 1))

\* C6: unescape(escape(b)) = b for every byte sequence b: the output of
\* escape_bytes is wrapped in quotes and decodes back to its input.
EscapeRoundTrip ==
    ScalarDone({"bytes", "str"}) =>
        /\ Len(wr.buf) >= 2
        /\ wr.buf[1] = 34 /\ wr.buf[Len(wr.buf)] = 34
        /\ unescape(wr.buf) = InputBytes

\* C6 witness: a backslash followed by the letter n, which must not decode
\* to a newline
EscapeRoundTripWitness ==
    /\ ScalarDone({"bytes"})
    /\ top.s = <<92, 110>>
    /\ wr.buf = <<34, 92, 92, 110, 34>>

\* no raw control byte, and no quote or backslash outside an escape, in a body
RECURSIVE CleanBody(_)
CleanBody(s) ==
    IF s = <<>> THEN TRUE
    ELSE IF s[1] = 92
         THEN /\ Len(s) >= 2
              /\ s[2] \in {34, 92, 98, 102, 110, 114, 116}
              /\ CleanBody(SubSeq(s, 3, Len(s)))
         ELSE s[1] >= 32 /\ s[1] # 34 /\ CleanBody(Tail(s))

\* C7: for every input (bytes, string or character) the text between the
\* wrapping quotes holds no raw control byte 0x00..0x1F and no '"' or '\'
\* that is not part of an escape sequence.
EscapedBodyIsClean ==
    ScalarDone({"bytes", "str", "char"}) =>
        /\ Len(wr.buf) >= 2
        /\ CleanBody(SubSeq(wr.buf, 2, Len(wr.buf) - 1))

\* C2: visit_char(c) writes '"', the escaping of the UTF-8 encoding of c (as
\* many bytes as c needs) and '"': what visit_str writes for the string c.
CharIsOneCharString ==
    ScalarDone({"char"}) => wr.buf = Literal(encode_utf8(top.n))

\* C8: visit_f64 of NaN, +Infinity and -Infinity writes the four bytes null
\* and returns success whenever the sink accepts the write; a value that
\* classifies as zero, subnormal or normal never writes through that arm.
NonFiniteIsNull ==
    (stack = <<>> /\ top.kind = "f64" /\ wr.err = NoFail) =>
        /\ ret.tag = "Ok"
        /\ wr.n = 1
        /\ (classify(top.f) \in {"FPNaN", "FPInfinite"} =>
               wr.buf = <<110, 117, 108, 108>>)
        /\ (classify(top.f) \in {"FPZero", "FPSubnormal", "FPNormal"} =>
               wr.buf = to_str_digits(top.f, 6))

\* C8 witness: -Infinity was written as null
NonFiniteIsNullWitness ==
    /\ stack = <<>> /\ ret.tag = "Ok"
    /\ top = F64V([sign |-> 1, exp |-> 2047, man |-> 0])
    /\ wr.buf = StrNull

(***************************************************************************)
(* Properties of sequences, mappings and sink failures (Spec).             *)
(***************************************************************************)
RECURSIVE Joined(_, _)
Joined(texts, sep) ==
    IF texts = <<>> THEN <<>>
    ELSE IF Len(texts) = 1 THEN texts[1]
    ELSE texts[1] \o sep \o Joined(Tail(texts), sep)

RECURSIVE TotalLen(_)
TotalLen(texts) == IF texts = <<>> THEN 0 ELSE Len(texts[1]) + TotalLen(Tail(texts))

\* the JSON text of a scalar element of this model's inputs: a one-digit
\* integer, or a string of plain ASCII
ScalarText(v) == IF v.kind = "int" THEN <<48 + v.n>> ELSE <<34>> \o v.s \o <<34>>

IsScalar(v) == v.kind \in {"int", "str"}

\* the bytes each element of a finished visit_seq / visit_map wrote
ValueTexts(c) == [i \in 1..Len(c.parts) |-> c.parts[i].v]
PairTexts(c) == [i \in 1..Len(c.parts) |-> c.parts[i].k \o <<58>> \o c.parts[i].v]

\* each scalar element wrote its own JSON text, each nested one a bracketed text
ElementsRendered(c) ==
    /\ Len(c.parts) = Len(c.vals)
    /\ \A i \in 1..Len(c.vals) :
          /\ IsScalar(c.vals[i].val) => c.parts[i].v = ScalarText(c.vals[i].val)
          /\ c.vals[i].val.kind = "seq" =>
                /\ Len(c.parts[i].v) >= 2
                /\ c.parts[i].v[1] = 91
                /\ c.parts[i].v[Len(c.parts[i].v)] = 93

\* the whole serialization returned to the caller with success
DoneOk == stack = <<>> /\ ret.tag = "Ok"

\* C3: a visit_seq over n elements, nested sequences included, writes '[',
\* the renderings of the elements in order with n-1 ',' between them (none
\* before the first, none after the last, no spaces), then ']'.
SeqRendering ==
    /\ lastClosed.kind = "seq" =>
          /\ ElementsRendered(lastClosed)
          /\ lastClosed.seg = <<91>> \o Joined(ValueTexts(lastClosed), <<44>>) \o <<93>>
    /\ (DoneOk /\ top.kind = "seq") =>
          /\ lastClosed.kind = "seq" /\ lastClosed.depth = 1
          /\ ret.bytes = lastClosed.seg

\* C3 witness: the sequence 1, 2, 3 was serialized as [1,2,3]
SeqRenderingWitness ==
    /\ DoneOk /\ top.kind = "seq"
    /\ lastClosed.vals = <<[key |-> NullV, val |-> IntV(1)],
                           [key |-> NullV, val |-> IntV(2)],
                           [key |-> NullV, val |-> IntV(3)]>>
    /\ ret.bytes = <<91, 49, 44, 50, 44, 51, 93>>

\* C1: a visit_map over n pairs writes exactly one '{', the pairs rendered
\* as key ':' value and separated by single ',' (no trailing comma), then
\* exactly one '}'; the empty mapping yields the two bytes {}.
MapRendering ==
    lastClosed.kind = "map" =>
        /\ Len(lastClosed.parts) = Len(lastClosed.vals)
        /\ lastClosed.seg = <<123>> \o Joined(PairTexts(lastClosed), <<44>>) \o <<125>>

\* what the top-level caller holds once the sink has rejected a write
FailureSurfaces ==
    stack = <<>> =>
        IF wr.err # NoFail
        THEN ret.tag = "Err" /\ ret.err = wr.err /\ ret.bytes = <<>> /\ ret.text = ""
        ELSE ret.tag = "Ok"

\* a step taken after the sink rejected a write: nothing is written, no
\* call is made, no driver is invoked
Unwinds ==
    wr.err # NoFail =>
        /\ wr' = wr
        /\ nodes' = nodes
        /\ lastClosed' = lastClosed
        /\ Len(stack') <= Len(stack)
        /\ \A i \in 1..Len(stack') :
              stack'[i].calls = stack[i].calls /\ stack'[i].op = stack[i].op

\* C4: once a write to the sink fails, at any point and nesting depth, no
\* further write is attempted, no element driver is invoked again, no
\* closing bracket is written, and the top-level caller receives that same
\* sink error and no output bytes.
SinkFailureAborts == [](~wr.late /\ FailureSurfaces) /\ [][Unwinds]_vars

\* C4 witness: the sink failed inside a nested sequence, after its first
\* element, and the caller got the error
SinkFailureAbortsWitness ==
    /\ stack = <<>> /\ ret.tag = "Err" /\ ret.err = wr.err
    /\ wr.buf = <<91, 91, 49>>
    /\ ~wr.late

\* the driver of every visit_seq / visit_map under way: invoked once per
\* element it yielded, once more if it returned None, never after that, and
\* only after the opening bracket was written
DriversInStep ==
    \A i \in 1..Len(stack) :
        IsContainer(stack[i]) =>
            /\ stack[i].calls = stack[i].count + (IF stack[i].exhausted THEN 1 ELSE 0)
            /\ stack[i].exhausted => (i = Len(stack) /\ stack[i].pc = "match")
            /\ Len(wr.buf) > stack[i].openPos
            /\ wr.buf[stack[i].openPos + 1] =
                   (IF stack[i].op = "visit_seq" THEN 91 ELSE 123)

\* a finished visit_seq / visit_map: its driver yielded n elements and was
\* invoked n+1 times, and the closing bracket ends what the call wrote,
\* after the bytes of every element
ClosedAfterExhaustion ==
    lastClosed.kind # "none" =>
        /\ lastClosed.exhausted
        /\ lastClosed.calls = lastClosed.count + 1
        /\ Len(lastClosed.parts) = lastClosed.count
        /\ Len(lastClosed.seg) >= 2 + TotalLen(ValueTexts(lastClosed))
        /\ lastClosed.seg[Len(lastClosed.seg)] =
               (IF lastClosed.kind = "seq" THEN 93 ELSE 125)

\* a visit_seq / visit_map writes to the sink itself only once after its
\* opening bracket: the closing one, in the step that follows None
ClosesOnlyOnNone ==
    (stack # <<>> /\ IsContainer(Top) /\ wr'.n # wr.n) =>
        /\ Top.exhausted /\ ret.tag = "None"
        /\ wr'.n = wr.n + 1
        /\ stack' = Pop

\* C10: visit_seq and visit_map invoke the driver until its first None: a
\* driver that yields n elements is invoked n+1 times and never after None;
\* the opening bracket is written before the first invocation and the
\* closing one once, after None and after every element's bytes; without a
\* None (and without a failure) no closing bracket is written.
DriverProtocol ==
    [](DriversInStep /\ ClosedAfterExhaustion) /\ [][ClosesOnlyOnNone]_vars

\* C10 witness: a sequence of two elements was closed after three invocations
DriverProtocolWitness ==
    /\ DoneOk
    /\ lastClosed.kind = "seq" /\ lastClosed.count = 2 /\ lastClosed.calls = 3
    /\ lastClosed.seg = <<91, 49, 44, 50, 93>>

====
